---------------------------- MODULE Spec2Model ----------------------------
(***************************************************************************)
(* Retrieval-augmented answering pipeline of the clinical trials           *)
(* dashboard: ClinicalTrialProcessor.process_trial, VectorStoreManager,    *)
(* OllamaProvider.generate_response and RAGManager.get_response.           *)
(*                                                                         *)
(* The Chroma collection, the embedding ranking and the Ollama HTTP        *)
(* service are external: each call to them is a step whose outcome is      *)
(* chosen from a small set (a ranking of the stored documents or a         *)
(* failure; an HTTP outcome).                                              *)
(***************************************************************************)
EXTENDS Integers, Sequences, FiniteSets, TLC

VARIABLES
    store,              \* the Chroma collection: sequence of [id, page_content, metadata]
    clock,              \* datetime.now() truncated to the second
    ingested,           \* number of add_trials calls since the last clear (caps the model)
    usage_stats,        \* RAGManager.usage_stats
    pc,                 \* position inside get_response ("idle" between calls)
    query,              \* the query of the call in progress
    mode,               \* "nct" (identifier branch) or "general"
    nct_id,             \* identifier _get_documents_for_nct_id is working on
    pending,            \* unique_nct_ids not yet iterated by _get_documents_for_query
    discovered,         \* identifiers seen in the discovery hits (initial_docs)
    all_relevant_docs,  \* accumulator of _get_documents_for_query
    relevant_docs,      \* relevant_docs of get_response
    prompt,             \* prompt selected by _select_prompt_template
    response,           \* answer returned by the first generate_response
    verification,       \* reply of the verification call
    result,             \* what get_response gave its caller
    llm_calls,          \* POSTs to /api/generate made by the call in progress
    search_failed,      \* TRUE once collection.query raised during the call in progress
    llm_error,          \* exception raised by generate_response in the call in progress
    last_fail,          \* [kind, shown] of the previous call that ended in an LLM failure
    last_op,            \* the last operation made on the store through its manager, and its outcome
    fetch               \* the call of fetch_trials_in_batches in progress: its arguments and locals

vars == << store, clock, ingested, usage_stats, pc, query, mode, nct_id, pending,
           discovered, all_relevant_docs, relevant_docs, prompt, response,
           verification, result, llm_calls, search_failed, llm_error, last_fail,
           last_op, fetch >>

callvars == << query, mode, nct_id, pending, discovered, all_relevant_docs,
               relevant_docs, prompt, response, verification, result, llm_calls,
               search_failed, llm_error >>

-----------------------------------------------------------------------------
(* Bounds of the model *)

\* chunks of a trial of ordinary length
SmallTrial == 3
\* chunks of a trial with a long description
BigTrial == 51
\* add_trials calls between two clears
MaxIngest == 1
\* seconds the clock may advance
MaxClock == 1
\* answered queries counted in usage_stats
MaxQueries == 1
\* rotations of the stored order the similarity ranking is drawn from
MaxShift == 1

\* words of a query whose classification is studied on its own
MaxWords == 3
\* add_trials calls between two clears when ingestion is studied on its own
MaxAdds == 2
\* chunks of a trial that needs a second write batch
HugeTrial == 5001

NoValue == "<none>"

NctIds == {"NCT00000001", "NCT00000002"}

TrialSizes == {1, SmallTrial}

\* a trial record as add_trials receives it; size abstracts the length of the
\* rendered text in units of one chunk of the splitter
TrialRecords == [nct_id : NctIds, size : TrialSizes]

-----------------------------------------------------------------------------
(* Sequence helpers *)

Range(s) == {s[i] : i \in DOMAIN s}

Take(s, k) == IF Len(s) <= k THEN s ELSE SubSeq(s, 1, k)

Reverse(s) == [i \in 1..Len(s) |-> s[Len(s) + 1 - i]]

Rotate(s, r) ==
    IF Len(s) = 0 THEN s
    ELSE [i \in 1..Len(s) |-> s[((i - 1 + r) % Len(s)) + 1]]

\* dict.get(key, default)
MetaGet(md, key, default) == IF key \in DOMAIN md THEN md[key] ELSE default

-----------------------------------------------------------------------------
(* ClinicalTrialProcessor (document_processor.py) *)

\* a list-valued field of a record: a list of items, or null
ListOf(items) == [null |-> FALSE, items |-> items]
NullList == [null |-> TRUE, items |-> << >>]

\* TextProcessor.clean_text: a falsy text becomes 'N/A'
CleanText(text) == IF text \in {NoValue, ""} THEN "N/A" ELSE text

\* TextProcessor.process_trial on the fields of the model: title is a text
\* field and is cleaned, the items of conditions are cleaned when conditions is
\* a list; nct_id, status, organization_full_name and study_phase are not touched
TextProcessTrial(rec) ==
    [k \in DOMAIN rec |->
        IF k = "conditions" /\ ~rec[k].null
        THEN ListOf([i \in DOMAIN rec[k].items |-> CleanText(rec[k].items[i])])
        ELSE IF k = "title" THEN CleanText(rec[k])
        ELSE rec[k]]

\* TextProcessor.process_trials_batch
TextProcessTrialsBatch(trials) == [i \in DOMAIN trials |-> TextProcessTrial(trials[i])]

\* ', '.join(value) raises TypeError on None and on a list with a None item
JoinRaises(value) == value.null \/ \E i \in DOMAIN value.items : value.items[i] = NoValue

\* process_trial raises while it renders the template: study_phase (line 32)
\* and conditions (line 59) are joined
ProcessTrialRaises(rec) ==
    \/ JoinRaises(MetaGet(rec, "study_phase", ListOf(<< "N/A" >>)))
    \/ JoinRaises(MetaGet(rec, "conditions", ListOf(<< "N/A" >>)))

\* process_trials_batch has no handler: the first record that raises ends it
ProcessTrialsBatchRaises(trials) == \E i \in DOMAIN trials : ProcessTrialRaises(trials[i])

\* an f-string placeholder renders its value with str(): None gives 'None'
FormatValue(v) == IF v = NoValue THEN "None" ELSE v

\* the fields of the head of the template that the model renders
RenderedFields == {"title", "organization_full_name", "status"}

\* the head of trial_text: each field is {trial_data.get(field, 'N/A')}
Header(rec) == [f \in RenderedFields |-> FormatValue(MetaGet(rec, f, "N/A"))]

\* text_splitter.split_text(trial_text): the rendered template is never blank,
\* so the split has one chunk per unit of text; the first chunk holds the head
SplitText(rec) ==
    [i \in 1..rec.size |->
        IF i = 1
        THEN [nct_id |-> MetaGet(rec, "nct_id", "N/A"), part |-> 0, header |-> Header(rec)]
        ELSE [nct_id |-> MetaGet(rec, "nct_id", "N/A"), part |-> i - 1]]

\* metadata written for chunk i of the enumeration (0-based): nct_id is
\* trial_data.get('nct_id', 'N/A'), the position is stored under the key chunk_id
ChunkMetadata(rec, i) == [nct_id |-> MetaGet(rec, "nct_id", "N/A"), chunk_id |-> i]

ProcessTrial(rec) ==
    LET chunks == SplitText(rec)
    IN  [i \in 1..Len(chunks) |->
            [page_content |-> chunks[i], metadata |-> ChunkMetadata(rec, i - 1)]]

RECURSIVE ProcessTrialsBatch(_)
ProcessTrialsBatch(trials) ==
    IF trials = << >> THEN << >>
    ELSE ProcessTrial(Head(trials)) \o ProcessTrialsBatch(Tail(trials))

-----------------------------------------------------------------------------
(* VectorStoreManager (vector_store.py) *)

BatchSize == 5000

\* None becomes "N/A"; str, int, float and bool values are kept (chunk_id is an int)
CleanValue(v) == IF v = NoValue THEN "N/A" ELSE v

CleanMetadata(md) ==
    [k \in DOMAIN md |-> IF k = "chunk_id" THEN md[k] ELSE CleanValue(md[k])]

\* ids of the i-th document (0-based) of a call made at second stamp:
\* f"doc_{i}_{datetime.now().strftime('%Y%m%d_%H%M%S')}"
DocId(i, stamp) == << i, stamp >>

StoredIds(st) == {st[i].id : i \in DOMAIN st}

\* collection.add of Chroma's persistent client: a record whose id the
\* collection already holds is skipped, the others are appended
CollectionAdd(st, batch) ==
    LET held == StoredIds(st)
    IN  st \o SelectSeq(batch, LAMBDA d : d.id \notin held)

\* variant: the loop runs at least once
NumBatchesAtLeastOne(n) == n \div BatchSize + 1

NumBatches(n) == (n + BatchSize - 1) \div BatchSize

BatchOf(entries, b) ==
    SubSeq(entries, (b - 1) * BatchSize + 1,
           IF b * BatchSize < Len(entries) THEN b * BatchSize ELSE Len(entries))

\* the for loop of add_documents from batch b on; the write of batch failAt
\* raises (0: none does), which leaves the loop through the except clause
RECURSIVE WriteBatches(_, _, _, _)
WriteBatches(st, entries, b, failAt) ==
    IF b > NumBatches(Len(entries)) \/ b = failAt THEN st
    ELSE WriteBatches(CollectionAdd(st, BatchOf(entries, b)), entries, b + 1, failAt)

\* ids, texts and cleaned metadata prepared by add_documents
Entries(documents, stamp) ==
    [i \in 1..Len(documents) |->
        [id           |-> DocId(i - 1, stamp),
         page_content |-> documents[i].page_content,
         metadata     |-> CleanMetadata(documents[i].metadata)]]

AddDocuments(st, documents, stamp, failAt) ==
    WriteBatches(st, Entries(documents, stamp), 1, failAt)

\* collection.add calls issued by add_documents for n documents
WritesIssued(n, failAt) ==
    IF failAt \in 1..NumBatches(n) THEN failAt ELSE NumBatches(n)

\* get_document_by_id: the Document held under doc_id, None when there is
\* none or when collection.get raised
GetDocumentById(st, doc_id, raised) ==
    LET held == SelectSeq(st, LAMBDA d : d.id = doc_id)
    IN  IF raised \/ held = << >>
        THEN [found |-> FALSE]
        ELSE [found |-> TRUE, page_content |-> held[1].page_content,
              metadata |-> held[1].metadata]

\* get_collection_stats: collection.count(), {} when it raised
GetCollectionStats(st, raised) ==
    IF raised THEN [error |-> TRUE] ELSE [error |-> FALSE, total_documents |-> Len(st)]

\* where clause built from filter_criteria: {key: {"$eq": value}}
WhereMatches(where, md) ==
    \A k \in DOMAIN where : k \in DOMAIN md /\ md[k] = where[k]

NoFilter == << >>

\* orders in which the embedding distance may rank the stored documents
Rankings(st) == {Rotate(st, r) : r \in 0..MaxShift} \cup {Reverse(st)}

\* collection.query(query_texts, n_results=k, where): the k nearest of the
\* documents that satisfy where, nearest first, under the ranking rank
CollectionQuery(rank, k, where) ==
    Take(SelectSeq(rank, LAMBDA d : WhereMatches(where, d.metadata)), k)

\* variant: a read evicts the oldest record of the collection
CollectionAfterReadEvicts(st) == IF st = << >> THEN st ELSE Tail(st)

\* the collection after collection.query, collection.get or collection.count:
\* the manager's read methods pass no data to the collection
CollectionAfterRead(st) == st

\* similarity_search: the hits as Documents, or [] when the query raised
SimilaritySearch(rank, k, where, raised) ==
    IF raised THEN << >>
    ELSE LET hits == CollectionQuery(rank, k, where)
         IN  [i \in 1..Len(hits) |->
                 [page_content |-> hits[i].page_content, metadata |-> hits[i].metadata]]

-----------------------------------------------------------------------------
(* Queries: a query is the sequence of its whitespace-separated tokens *)

Queries ==
    { << "status", "NCT00000001" >>,
      << "nct00000002", "results" >>,
      << "NCT0000001", "status" >>,
      << "aspirin", "trials" >> }

\* str.upper() on the tokens of the vocabulary
Upper(t) ==
    CASE t = "status"      -> "STATUS"
      [] t = "results"     -> "RESULTS"
      [] t = "aspirin"     -> "ASPIRIN"
      [] t = "trials"      -> "TRIALS"
      [] t = "nct00000002" -> "NCT00000002"
      [] OTHER             -> t

\* str.lower() on the tokens of the vocabulary
Lower(t) ==
    CASE t = "NCT00000001" -> "nct00000001"
      [] t = "NCT0000001"  -> "nct0000001"
      [] t = "Results"     -> "results"
      [] OTHER             -> t

\* re.findall(r'NCT\d{8}', token): NCT followed by eight digits
FindNct(t) == IF t \in {"NCT00000001", "NCT00000002"} THEN << t >> ELSE << >>

RECURSIVE NctMatches(_)
NctMatches(q) ==
    IF q = << >> THEN << >>
    ELSE FindNct(Upper(Head(q))) \o NctMatches(Tail(q))

-----------------------------------------------------------------------------
(* RAGManager retrieval (rag_manager.py) *)

NctK == 50
DiscoveryK == 5

\* order of Python's string comparison on the identifiers of the model
StringRank(s) ==
    CASE s = ""            -> 0
      [] s = "N/A"         -> 1
      [] s = "NCT00000001" -> 2
      [] s = "NCT00000002" -> 3

KeyLess(a, b) == a[1] < b[1] \/ (a[1] = b[1] /\ a[2] < b[2])

\* list.sort(key=...): stable, ascending; keys[i] is the key of docs[i]
StableSort(docs, keys) ==
    LET n == Len(docs)
        pos == [j \in 1..n |->
                   Cardinality({m \in 1..n : \/ KeyLess(keys[m], keys[j])
                                             \/ (keys[m] = keys[j] /\ m <= j)})]
    IN  [i \in 1..n |-> docs[CHOOSE j \in 1..n : pos[j] = i]]

\* key=lambda doc: int(doc.metadata.get('chunk_index', 0))
ChunkIndexKey(d) == << 0, MetaGet(d.metadata, "chunk_index", 0) >>

\* key=lambda doc: (doc.metadata.get('nct_id', ''), int(doc.metadata.get('chunk_index', 0)))
NctChunkKey(d) ==
    << StringRank(MetaGet(d.metadata, "nct_id", "")), MetaGet(d.metadata, "chunk_index", 0) >>

SortByChunkIndex(docs) == StableSort(docs, [i \in 1..Len(docs) |-> ChunkIndexKey(docs[i])])

SortByNctAndChunk(docs) == StableSort(docs, [i \in 1..Len(docs) |-> NctChunkKey(docs[i])])

\* variant: the unfiltered hits are returned without the selection
FallbackSelectAll(all_docs, id) == all_docs

\* [doc for doc in all_docs if doc.metadata.get('nct_id') == nct_id]
FallbackSelect(all_docs, id) ==
    SelectSeq(all_docs, LAMBDA d : MetaGet(d.metadata, "nct_id", NoValue) = id)

\* filter_criteria={"nct_id": nct_id}
NctFilter(id) == [nct_id |-> id]

\* unique_nct_ids: the truthy identifiers of the discovery hits
UniqueNctIds(initial_docs) ==
    {MetaGet(initial_docs[i].metadata, "nct_id", NoValue) : i \in DOMAIN initial_docs}
        \ {NoValue, ""}

\* identifiers carried by the discovery hits
HitIds(initial_docs) ==
    {MetaGet(initial_docs[i].metadata, "nct_id", NoValue) : i \in DOMAIN initial_docs}

\* "\n\n".join([doc.page_content for doc in relevant_docs])
ContextOf(docs) == [i \in 1..Len(docs) |-> docs[i].page_content]

NotFoundNct(id) == << "I couldn't find any clinical trial with", id >>
NotFoundGeneral == << "I couldn't find any relevant clinical trials for your query." >>
Apology == << "I apologize, but I encountered an error while processing your query. Please try again." >>
Raised == << "<exception propagated>" >>

-----------------------------------------------------------------------------
(* Prompt selection (rag_manager.py, templates.py) *)

\* keywords of _select_prompt_template that occur as substrings of a token
KeywordsIn(t) ==
    CASE t = "results"     -> {"results"}
      [] t = "find"        -> {"find"}
      [] t = "summary"     -> {"summary"}
      [] t = "detailed"    -> {"detailed"}
      [] t = "information" -> {"for"}
      [] OTHER             -> {}

QueryKeywords(q) == UNION {KeywordsIn(Lower(q[i])) : i \in DOMAIN q}

OutcomeKeywords == {"outcome", "results", "outcome measure", "outcomes", "measures"}
DiscoveryKeywords == {"show me", "find", "list", "related to", "about", "for"}
SummaryKeywords == {"summarize", "summary", "summarise", "brief", "overview", "sum up"}
DetailKeywords == {"detailed", "comprehensive", "complete", "full"}

\* variant: the discovery keywords are tested before the outcome keywords
CategoryDiscoveryFirst(q) ==
    LET kw == QueryKeywords(q)
    IN  IF kw \cap DiscoveryKeywords # {} THEN "discovery"
        ELSE IF kw \cap OutcomeKeywords # {} THEN "outcome"
        ELSE IF kw \cap SummaryKeywords # {} THEN
            IF kw \cap DetailKeywords # {} THEN "detailed_summary" ELSE "summary"
        ELSE "general"

Category(q) ==
    LET kw == QueryKeywords(q)
    IN  IF kw \cap OutcomeKeywords # {} THEN "outcome"
        ELSE IF kw \cap DiscoveryKeywords # {} THEN "discovery"
        ELSE IF kw \cap SummaryKeywords # {} THEN
            IF kw \cap DetailKeywords # {} THEN "detailed_summary" ELSE "summary"
        ELSE "general"

SelectPromptTemplate(q, context) ==
    [template |-> Category(q), query |-> q, context |-> context, strict |-> FALSE]

\* words of a template's fixed text (str.split())
TemplateWords(cat) ==
    CASE cat = "outcome"          -> 54
      [] cat = "discovery"        -> 107
      [] cat = "summary"          -> 50
      [] cat = "detailed_summary" -> 55
      [] cat = "general"          -> 51

-----------------------------------------------------------------------------
(* OllamaProvider (rag_manager.py) *)

\* texts the model may reply with, as token sequences
ReplyTexts ==
    { << "RECRUITING" >>,
      << "VERIFIED" >>,
      << "HALLUCINATION_DETECTED" >> }

\* bodies of a reply that is not JSON
RawTexts == { << >>, << "RECRUITING" >> }

PostFailures == {"timeout", "request_error", "status_error", "no_field"}

\* what the HTTP service does during one generate_response call: the health
\* probe (GET /api/tags), then the POST to /api/generate and its body
HttpOutcomes ==
    [health : {"refused", "bad_status"}, post : {"none"}, text : {<< >>}]
        \cup [health : {"up"}, post : PostFailures, text : {<< >>}]
        \cup [health : {"up"}, post : {"ok"}, text : ReplyTexts]
        \cup [health : {"up"}, post : {"bad_json"}, text : RawTexts]

\* _check_ollama_health: status 200, and False on a refused connection
CheckOllamaHealth(http) == http.health = "up"

Returns(v) == [raised |-> FALSE, exc |-> NoValue, msg |-> NoValue, value |-> v]
Raises(cls, m) == [raised |-> TRUE, exc |-> cls, msg |-> m, value |-> << >>]

\* variant: every failure of the call raises one and the same message
GenerateResponseUniform(http) ==
    IF CheckOllamaHealth(http) /\ http.post = "ok"
    THEN Returns(http.text)
    ELSE Raises("Exception", "Error communicating with Ollama")

GenerateResponse(http) ==
    IF ~CheckOllamaHealth(http)
    THEN Raises("ConnectionError", "Ollama is not running. Please start Ollama with 'ollama serve'")
    ELSE CASE http.post = "timeout" ->
                Raises("Exception", "Request to Ollama timed out. Please try again.")
           [] http.post = "request_error" ->
                Raises("Exception", "Error communicating with Ollama")
           [] http.post = "status_error" ->
                Raises("Exception", "Ollama API error")
           [] http.post = "no_field" ->
                Raises("ValueError", "Invalid response format from Ollama")
           [] http.post = "bad_json" ->
                IF http.text # << >> THEN Returns(http.text)
                ELSE Raises("Exception", "Failed to parse Ollama response")
           [] http.post = "ok" -> Returns(http.text)

\* count_tokens: len(text.split()) * 1.3, in tenths of a token
CountTokens(words) == 13 * words

-----------------------------------------------------------------------------
(* RAGManager._verify_response and get_response (rag_manager.py) *)

ModelName == "mistral"

\* words of one stored chunk
WordsPerChunk == 3

PromptWords(p) == TemplateWords(p.template) + Len(p.query) + WordsPerChunk * Len(p.context)

\* names bound inside _verify_response, and at module level of rag_manager.py
VerifyResponseScope == {"self", "response", "context", "verification_prompt", "verification"}
ModuleGlobals == {"List", "Dict", "Any", "Optional", "ClinicalTrialProcessor", "TextProcessor",
                  "VectorStoreManager", "PromptTemplates", "load_dotenv", "Document", "os",
                  "re", "datetime", "requests", "json", "OllamaProvider", "RAGManager"}

\* names the regeneration expression of _verify_response reads
RegenerationNames == {"self", "prompt", "query"}

UnboundNames == RegenerationNames \ (VerifyResponseScope \cup ModuleGlobals)

Contains(text, token) == \E i \in DOMAIN text : text[i] = token

\* variant: a detected hallucination restarts the generation and is verified again
AfterVerificationLoop(reply) ==
    IF Contains(reply, "HALLUCINATION_DETECTED") THEN "generate" ELSE "return"

\* variant: the test of the verification reply is inverted
AfterVerificationInverted(reply) ==
    IF Contains(reply, "HALLUCINATION_DETECTED") THEN "return" ELSE "regenerate"

\* where _verify_response goes after the verification reply
AfterVerification(reply) ==
    IF Contains(reply, "HALLUCINATION_DETECTED") THEN "regenerate" ELSE "return"

CorrectionPrefix == "I apologize, but I need to correct my previous response."

\* prompt + "\n\nIMPORTANT: Only use information explicitly stated in the context. ..."
Strengthened(p) == [p EXCEPT !.strict = TRUE]

\* classes caught by "except Exception" of get_response
ExceptionClasses == {"Exception", "ConnectionError", "ValueError", "NameError", "TypeError"}

\* variant: the handler is "except ConnectionError"
HandlerCatchesConnectionOnly(cls) == cls = "ConnectionError"

HandlerCatches(cls) == cls \in ExceptionClasses

\* what the caller of get_response gets when cls is raised inside the try block
OnException(cls) == IF HandlerCatches(cls) THEN Apology ELSE Raised

NoError == [exc |-> NoValue, msg |-> NoValue, kind |-> NoValue]

\* variant: the tokens of the answer are not counted
UpdateUsageInputOnly(stats, p, q, answer) ==
    [stats EXCEPT
        !.total_queries = @ + 1,
        !.total_tokens = @ + CountTokens(PromptWords(p)) + CountTokens(Len(q)),
        !.queries_by_model = [@ EXCEPT ![ModelName] = @ + 1]]

\* variant: the per-model counter is not incremented
UpdateUsageTotalOnly(stats, p, q, answer) ==
    [stats EXCEPT
        !.total_queries = @ + 1,
        !.total_tokens = @ + CountTokens(PromptWords(p)) + CountTokens(Len(q))
                           + CountTokens(Len(answer))]

UpdateUsage(stats, p, q, answer) ==
    [stats EXCEPT
        !.total_queries = @ + 1,
        !.total_tokens = @ + CountTokens(PromptWords(p)) + CountTokens(Len(q))
                           + CountTokens(Len(answer)),
        !.queries_by_model = [@ EXCEPT ![ModelName] = @ + 1]]

FreshUsage(now) ==
    [total_queries |-> 0, total_tokens |-> 0,
     queries_by_model |-> [m \in {ModelName} |-> 0], last_reset |-> now]

NoReply == [got |-> FALSE, text |-> << >>]
Reply(t) == [got |-> TRUE, text |-> t]

NoPrompt == [template |-> NoValue, query |-> << >>, context |-> << >>, strict |-> FALSE]

\* no operation made on the store yet
NoOp == [op |-> NoValue]

\* no call of fetch_trials_in_batches is in progress
NoFetch == [pc |-> "idle"]

NoFail == [kind |-> NoValue, msg |-> NoValue, shown |-> << >>]

\* the failure kinds of the language model, by what the HTTP service did
FailureKind(http) ==
    CASE http.health # "up" -> "connection"
      [] http.post = "timeout" -> "timeout"
      [] http.post = "no_field" \/ (http.post = "bad_json" /\ http.text = << >>) -> "malformed"
      [] OTHER -> "other"

-----------------------------------------------------------------------------
(* State machine *)

Init ==
    /\ store = << >>
    /\ clock = 0
    /\ ingested = 0
    /\ usage_stats = FreshUsage(0)
    /\ pc = "idle"
    /\ query = << >>
    /\ mode = NoValue
    /\ nct_id = NoValue
    /\ pending = {}
    /\ discovered = {}
    /\ all_relevant_docs = << >>
    /\ relevant_docs = << >>
    /\ prompt = NoPrompt
    /\ response = NoReply
    /\ verification = NoReply
    /\ result = NoReply
    /\ llm_calls = 0
    /\ search_failed = FALSE
    /\ llm_error = NoError
    /\ last_fail = NoFail
    /\ last_op = NoOp
    /\ fetch = NoFetch

\* the second of the wall clock passes
Tick ==
    /\ pc = "idle"
    /\ clock < MaxClock
    /\ clock' = clock + 1
    /\ UNCHANGED << store, ingested, usage_stats, pc, last_fail, last_op, fetch >>
    /\ UNCHANGED callvars

\* lists of records handed to add_trials: none, one, or two of different trials
TrialBatches ==
    {<< >>} \cup {<< r >> : r \in TrialRecords}
        \cup {<< r1, r2 >> : r1 \in {r \in TrialRecords : r.nct_id = "NCT00000001"},
                             r2 \in {r \in TrialRecords : r.nct_id = "NCT00000002"}}

\* RAGManager.add_trials -> process_trials_batch -> add_documents; the records
\* are taken as text_processor.process_trials_batch leaves them (it rewrites
\* text and date fields only)
\* a record that makes process_trial raise reaches add_trials' caller as
\* the exception, before add_documents is called. With keep, the call and its
\* outcome are remembered in last_op
AddTrialsOf(batches, fails, cap, keep) ==
    /\ pc = "idle"
    /\ ingested < cap
    /\ \E batch \in batches, failAt \in fails :
        LET processed_trials == TextProcessTrialsBatch(batch)
            raised == ProcessTrialsBatchRaises(processed_trials)
            documents == ProcessTrialsBatch(processed_trials)
        IN  /\ store' = IF raised THEN store
                         ELSE AddDocuments(store, documents, clock, failAt)
            /\ last_op' = IF keep
                           THEN [op |-> "add_trials", batch |-> batch, stamp |-> clock,
                                 failAt |-> failAt, raised |-> raised, before |-> store,
                                 writes |-> IF raised THEN 0
                                            ELSE WritesIssued(Len(documents), failAt)]
                           ELSE last_op
    /\ ingested' = ingested + 1
    /\ UNCHANGED << clock, usage_stats, pc, last_fail, fetch >>
    /\ UNCHANGED callvars

AddTrials == AddTrialsOf(TrialBatches, {0, 1}, MaxIngest, FALSE)

\* RAGManager.clear_database -> clear_collection: collection.delete(where={})
\* removes every record, or raises and is logged
ClearDatabaseOp(keep) ==
    /\ pc = "idle"
    /\ \E raised \in BOOLEAN :
           /\ store' = IF raised THEN store ELSE << >>
           /\ ingested' = IF raised THEN ingested ELSE 0
           /\ last_op' = IF keep
                          THEN [op |-> "clear_database", raised |-> raised, before |-> store]
                          ELSE last_op
    /\ UNCHANGED << clock, usage_stats, pc, last_fail, fetch >>
    /\ UNCHANGED callvars

ClearDatabase == ClearDatabaseOp(FALSE)

ResetUsageStats ==
    /\ pc = "idle"
    /\ usage_stats' = FreshUsage(clock)
    /\ UNCHANGED << store, clock, ingested, pc, last_fail, last_op, fetch >>
    /\ UNCHANGED callvars

\* get_response entered: the identifier pattern is searched in query.upper()
GetResponse ==
    /\ pc = "idle"
    /\ usage_stats.total_queries < MaxQueries
    /\ \E q \in Queries :
        LET nct_matches == NctMatches(q)
        IN  /\ query' = q
            /\ IF nct_matches # << >>
               THEN /\ mode' = "nct"
                    /\ nct_id' = nct_matches[1]
                    /\ pc' = "filtered"
               ELSE /\ mode' = "general"
                    /\ nct_id' = NoValue
                    /\ pc' = "discover"
    /\ UNCHANGED << store, clock, ingested, usage_stats, last_fail, last_op, fetch >>
    /\ UNCHANGED << pending, discovered, all_relevant_docs, relevant_docs, prompt,
                    response, verification, result, llm_calls, search_failed, llm_error >>

\* get_response once the retrieval returned docs: the "couldn't find" return,
\* or context and prompt
FinishRetrieval(docs) ==
    IF docs = << >>
    THEN /\ result' = Reply(IF mode = "nct" THEN NotFoundNct(nct_id) ELSE NotFoundGeneral)
         /\ pc' = "done"
         /\ UNCHANGED << relevant_docs, prompt >>
    ELSE /\ relevant_docs' = docs
         /\ prompt' = SelectPromptTemplate(query, ContextOf(docs))
         /\ pc' = "generate"
         /\ UNCHANGED result

\* _get_documents_for_nct_id returns docs to its caller: get_response, or the
\* loop over unique_nct_ids of _get_documents_for_query; all_relevant_docs keeps
\* the documents in the order the loop retrieved them, relevant_docs is the list
\* after the sort
NctReturn(docs) ==
    IF mode = "nct"
    THEN /\ FinishRetrieval(docs)
         /\ UNCHANGED << nct_id, pending, all_relevant_docs >>
    ELSE LET acc == all_relevant_docs \o docs
         IN  IF pending = {}
             THEN /\ FinishRetrieval(SortByNctAndChunk(acc))
                  /\ all_relevant_docs' = acc
                  /\ nct_id' = NoValue
                  /\ UNCHANGED pending
             ELSE /\ \E next \in pending :
                        /\ nct_id' = next
                        /\ pending' = pending \ {next}
                  /\ all_relevant_docs' = acc
                  /\ pc' = "filtered"
                  /\ UNCHANGED << relevant_docs, prompt, result >>

\* _get_documents_for_nct_id: the search filtered by the identifier
FilteredSearch ==
    /\ pc = "filtered"
    /\ \E rank \in Rankings(store), raised \in BOOLEAN :
        LET docs == SimilaritySearch(rank, NctK, NctFilter(nct_id), raised)
        IN  /\ search_failed' = (search_failed \/ raised)
            /\ IF docs # << >>
               THEN NctReturn(SortByChunkIndex(docs))
               ELSE /\ pc' = "fallback"
                    /\ UNCHANGED << nct_id, pending, all_relevant_docs, relevant_docs,
                                    prompt, result >>
    /\ store' = CollectionAfterRead(store)
    /\ UNCHANGED << clock, ingested, usage_stats, last_fail, last_op, fetch >>
    /\ UNCHANGED << query, mode, discovered, response, verification, llm_calls, llm_error >>

\* _get_documents_for_nct_id: the unfiltered search and the manual selection
FallbackSearch ==
    /\ pc = "fallback"
    /\ \E rank \in Rankings(store), raised \in BOOLEAN :
        LET all_docs == SimilaritySearch(rank, NctK, NoFilter, raised)
            docs == FallbackSelect(all_docs, nct_id)
        IN  /\ search_failed' = (search_failed \/ raised)
            /\ IF docs # << >>
               THEN NctReturn(SortByChunkIndex(docs))
               ELSE NctReturn(<< >>)
    /\ store' = CollectionAfterRead(store)
    /\ UNCHANGED << clock, ingested, usage_stats, last_fail, last_op, fetch >>
    /\ UNCHANGED << query, mode, discovered, response, verification, llm_calls, llm_error >>

\* _get_documents_for_query: the discovery search and the set of identifiers
Discover ==
    /\ pc = "discover"
    /\ \E rank \in Rankings(store), raised \in BOOLEAN :
        LET initial_docs == SimilaritySearch(rank, DiscoveryK, NoFilter, raised)
            unique_nct_ids == UniqueNctIds(initial_docs)
        IN  /\ search_failed' = (search_failed \/ raised)
            /\ discovered' = HitIds(initial_docs)
            /\ IF initial_docs = << >> \/ unique_nct_ids = {}
               THEN /\ FinishRetrieval(<< >>)
                    /\ UNCHANGED << nct_id, pending, all_relevant_docs >>
               ELSE /\ \E next \in unique_nct_ids :
                          /\ nct_id' = next
                          /\ pending' = unique_nct_ids \ {next}
                    /\ pc' = "filtered"
                    /\ UNCHANGED << all_relevant_docs, relevant_docs, prompt, result >>
    /\ store' = CollectionAfterRead(store)
    /\ UNCHANGED << clock, ingested, usage_stats, last_fail, last_op, fetch >>
    /\ UNCHANGED << query, mode, response, verification, llm_calls, llm_error >>

\* variant: the failed call is counted like an answered one
FailCounted(cls, m, kind) ==
    /\ result' = Reply(OnException(cls))
    /\ llm_error' = [exc |-> cls, msg |-> m, kind |-> kind]
    /\ pc' = "done"
    /\ usage_stats' = UpdateUsage(usage_stats, prompt, query, OnException(cls))
    /\ UNCHANGED << prompt, response >>

\* an exception of class cls leaves the try block of get_response
Fail(cls, m, kind) ==
    /\ result' = Reply(OnException(cls))
    /\ llm_error' = [exc |-> cls, msg |-> m, kind |-> kind]
    /\ pc' = "done"
    /\ UNCHANGED << usage_stats, prompt, response >>

\* lines 239-246 of get_response: the usage counters, then the return
Answer(text) ==
    /\ usage_stats' = UpdateUsage(usage_stats, prompt, query, text)
    /\ result' = Reply(text)
    /\ pc' = "done"
    /\ UNCHANGED << prompt, llm_error >>

\* one call of llm.generate_response: the first answer (pc = "generate"), the
\* verification (pc = "verify") or the regeneration (pc = "regenerate")
LlmCall ==
    /\ pc \in {"generate", "verify", "regenerate"}
    /\ llm_calls' = llm_calls + 1
    /\ \E http \in HttpOutcomes :
        LET r == GenerateResponse(http)
        IN  IF r.raised
            THEN /\ Fail(r.exc, r.msg, FailureKind(http))
                 /\ UNCHANGED verification
            ELSE CASE pc = "generate" ->
                        /\ response' = Reply(r.value)
                        /\ pc' = "verify"
                        /\ UNCHANGED << usage_stats, prompt, verification, result, llm_error >>
                   [] pc = "verify" ->
                        LET next == AfterVerification(r.value)
                        IN  CASE next = "return" ->
                                    /\ verification' = Reply(r.value)
                                    /\ Answer(response.text)
                                    /\ UNCHANGED response
                              [] next = "regenerate" /\ UnboundNames # {} ->
                                    /\ Fail("NameError", "name 'prompt' is not defined", "other")
                                    /\ verification' = Reply(r.value)
                              [] OTHER ->
                                    /\ verification' = Reply(r.value)
                                    /\ pc' = next
                                    /\ UNCHANGED << usage_stats, prompt, response, result,
                                                    llm_error >>
                   [] pc = "regenerate" ->
                        /\ Answer(<< CorrectionPrefix >> \o r.value)
                        /\ UNCHANGED << response, verification >>
    /\ UNCHANGED << store, clock, ingested, last_fail, last_op, fetch >>
    /\ UNCHANGED << query, mode, nct_id, pending, discovered, all_relevant_docs,
                    relevant_docs, search_failed >>

\* get_response has returned: its locals are gone. With keep, the caller keeps
\* what a call that ended in a language-model failure showed
FinishCall(keep) ==
    /\ pc = "done"
    /\ pc' = "idle"
    /\ last_fail' = IF keep /\ llm_error.kind \in {"connection", "timeout", "malformed"}
                    THEN [kind |-> llm_error.kind, msg |-> llm_error.msg,
                          shown |-> result.text]
                    ELSE last_fail
    /\ query' = << >>
    /\ mode' = NoValue
    /\ nct_id' = NoValue
    /\ pending' = {}
    /\ discovered' = {}
    /\ all_relevant_docs' = << >>
    /\ relevant_docs' = << >>
    /\ prompt' = NoPrompt
    /\ response' = NoReply
    /\ verification' = NoReply
    /\ result' = NoReply
    /\ llm_calls' = 0
    /\ search_failed' = FALSE
    /\ llm_error' = NoError
    /\ UNCHANGED << store, clock, ingested, usage_stats, last_op, fetch >>

Finish == FinishCall(FALSE)

FinishAndKeep == FinishCall(TRUE)

Next ==
    \/ Tick
    \/ AddTrials
    \/ ClearDatabase
    \/ ResetUsageStats
    \/ GetResponse
    \/ FilteredSearch
    \/ FallbackSearch
    \/ Discover
    \/ LlmCall
    \/ Finish

Spec == Init /\ [][Next]_vars

-----------------------------------------------------------------------------
(* Query handling over a collection persisted by earlier runs *)

\* the state after construction over a persist_directory that holds persisted
InitOver(persisted) ==
    /\ store \in persisted
    /\ clock = 0
    /\ ingested = 0
    /\ usage_stats = FreshUsage(0)
    /\ pc = "idle"
    /\ query = << >>
    /\ mode = NoValue
    /\ nct_id = NoValue
    /\ pending = {}
    /\ discovered = {}
    /\ all_relevant_docs = << >>
    /\ relevant_docs = << >>
    /\ prompt = NoPrompt
    /\ response = NoReply
    /\ verification = NoReply
    /\ result = NoReply
    /\ llm_calls = 0
    /\ search_failed = FALSE
    /\ llm_error = NoError
    /\ last_fail = NoFail
    /\ last_op = NoOp
    /\ fetch = NoFetch

\* the collection after add_trials(batch) on an empty collection
Ingested(batch) == AddDocuments(<< >>, ProcessTrialsBatch(batch), 0, 0)

\* collections of trials of ordinary length
PersistedStores == { Ingested(batch) : batch \in TrialBatches }

\* collections that hold a trial with a long description
LargeStores ==
    { Ingested(<< [nct_id |-> "NCT00000001", size |-> BigTrial] >>) }

InitPersisted == InitOver(PersistedStores)

InitLarge == InitOver(LargeStores)

NextQuery ==
    \/ GetResponse
    \/ FilteredSearch
    \/ FallbackSearch
    \/ Discover
    \/ LlmCall
    \/ FinishAndKeep

SpecQuery == InitPersisted /\ [][NextQuery]_vars

SpecLarge == InitLarge /\ [][NextQuery]_vars

-----------------------------------------------------------------------------
(* Ingestion on its own: add_trials and clear_database with their history *)

WellFormedRecords ==
    { [nct_id |-> "NCT00000001", size |-> 1],
      [nct_id |-> "NCT00000001", size |-> SmallTrial],
      [nct_id |-> "NCT00000002", size |-> 1] }

\* records whose nct_id key is absent, null or the empty string
UnidentifiedRecords ==
    { [size |-> 1],
      [nct_id |-> NoValue, size |-> 1],
      [nct_id |-> "", size |-> 1] }

\* records with a null study_phase, a null item in conditions, null conditions
MalformedRecords ==
    { [nct_id |-> "NCT00000002", size |-> 1, study_phase |-> NullList],
      [nct_id |-> "NCT00000002", size |-> 1, conditions |-> ListOf(<< NoValue >>)],
      [nct_id |-> "NCT00000002", size |-> 1, conditions |-> NullList] }

\* records with a title and a status: set, or present and null as
\* preprocess_trial_data leaves the fields the registry does not give
DescribedRecords ==
    { [nct_id |-> "NCT00000001", size |-> 1, title |-> "Aspirin Study", status |-> "RECRUITING"],
      [nct_id |-> "NCT00000001", size |-> 1, title |-> NoValue, status |-> NoValue] }

IngestBatches ==
    {<< >>}
        \cup {<< r >> : r \in WellFormedRecords \cup UnidentifiedRecords \cup MalformedRecords
                                \cup DescribedRecords}
        \cup {<< r1, r2 >> : r1 \in {[nct_id |-> "NCT00000001", size |-> 1]},
                             r2 \in MalformedRecords \cup {[nct_id |-> "NCT00000002", size |-> 1]}}
        \cup {<< r1, r2 >> : r1 \in MalformedRecords,
                             r2 \in {[nct_id |-> "NCT00000001", size |-> 1]}}

\* the write batch whose collection.add raises (0: none)
WriteFailures == {0, 1, 2}

AddTrialsKept == AddTrialsOf(IngestBatches, WriteFailures, MaxAdds, TRUE)

ClearDatabaseKept == ClearDatabaseOp(TRUE)

NextIngest ==
    \/ Tick
    \/ AddTrialsKept
    \/ ClearDatabaseKept

SpecIngest == Init /\ [][NextIngest]_vars

-----------------------------------------------------------------------------
(* Ingestion of a trial that needs more than one write batch *)

HugeRecord == [nct_id |-> "NCT00000001", size |-> HugeTrial]

LargeBatches == {<< HugeRecord >>, << [nct_id |-> "NCT00000002", size |-> 1] >>}

AddLargeTrials == AddTrialsOf(LargeBatches, WriteFailures, MaxAdds, TRUE)

NextBatches ==
    \/ Tick
    \/ AddLargeTrials
    \/ ClearDatabaseKept

SpecBatches == Init /\ [][NextBatches]_vars

-----------------------------------------------------------------------------
(* Read operations over a persisted collection *)

\* ids asked of get_document_by_id: one assigned at second 0, one never assigned
AskedIds == {DocId(0, 0), DocId(0, MaxClock + 1)}

\* VectorStoreManager.similarity_search called on its own
SimilaritySearchCall ==
    /\ pc = "idle"
    /\ \E rank \in Rankings(store), where \in {NoFilter, NctFilter("NCT00000001")},
          raised \in BOOLEAN :
           last_op' = [op |-> "similarity_search",
                       out |-> SimilaritySearch(rank, DiscoveryK, where, raised)]
    /\ store' = CollectionAfterRead(store)
    /\ UNCHANGED << clock, ingested, usage_stats, pc, last_fail, fetch >>
    /\ UNCHANGED callvars

\* VectorStoreManager.get_document_by_id
GetDocumentByIdCall ==
    /\ pc = "idle"
    /\ \E doc_id \in AskedIds, raised \in BOOLEAN :
           last_op' = [op |-> "get_document_by_id",
                       out |-> GetDocumentById(store, doc_id, raised)]
    /\ store' = CollectionAfterRead(store)
    /\ UNCHANGED << clock, ingested, usage_stats, pc, last_fail, fetch >>
    /\ UNCHANGED callvars

\* VectorStoreManager.get_collection_stats
GetCollectionStatsCall ==
    /\ pc = "idle"
    /\ \E raised \in BOOLEAN :
           last_op' = [op |-> "get_collection_stats",
                       out |-> GetCollectionStats(store, raised)]
    /\ store' = CollectionAfterRead(store)
    /\ UNCHANGED << clock, ingested, usage_stats, pc, last_fail, fetch >>
    /\ UNCHANGED callvars

NextRead ==
    \/ SimilaritySearchCall
    \/ GetDocumentByIdCall
    \/ GetCollectionStatsCall
    \/ GetResponse
    \/ FilteredSearch
    \/ FallbackSearch
    \/ Discover
    \/ LlmCall
    \/ Finish

SpecRead == InitPersisted /\ [][NextRead]_vars

-----------------------------------------------------------------------------
(* Prompt selection on its own: line 231 of get_response *)

\* words with an outcome, a discovery, a summary and a detail keyword, a word
\* that holds the discovery keyword "for" inside, and words with none
ClassifyWords ==
    {"Results", "find", "summary", "detailed", "information", "aspirin",
     "status", "eligibility", "intervention"}

ClassifyQueries == UNION {[1..n -> ClassifyWords] : n \in 1..MaxWords}

\* get_response has retrieved the chunk of a stored trial for a query
InitClassify ==
    /\ store = Ingested(<< [nct_id |-> "NCT00000001", size |-> 1] >>)
    /\ clock = 0
    /\ ingested = 0
    /\ usage_stats = FreshUsage(0)
    /\ pc = "select"
    /\ query \in ClassifyQueries
    /\ mode = "general"
    /\ nct_id = NoValue
    /\ pending = {}
    /\ discovered = {"NCT00000001"}
    /\ all_relevant_docs = << >>
    /\ relevant_docs = SimilaritySearch(store, NctK, NctFilter("NCT00000001"), FALSE)
    /\ prompt = NoPrompt
    /\ response = NoReply
    /\ verification = NoReply
    /\ result = NoReply
    /\ llm_calls = 0
    /\ search_failed = FALSE
    /\ llm_error = NoError
    /\ last_fail = NoFail
    /\ last_op = NoOp
    /\ fetch = NoFetch

SelectTemplate ==
    /\ pc = "select"
    /\ prompt' = SelectPromptTemplate(query, ContextOf(relevant_docs))
    /\ pc' = "generate"
    /\ UNCHANGED << store, clock, ingested, usage_stats, last_fail, last_op, fetch >>
    /\ UNCHANGED << query, mode, nct_id, pending, discovered, all_relevant_docs,
                    relevant_docs, response, verification, result, llm_calls,
                    search_failed, llm_error >>

NextClassify == SelectTemplate \/ LlmCall \/ Finish

SpecClassify == InitClassify /\ [][NextClassify]_vars

-----------------------------------------------------------------------------
(* Usage counters: get_response calls, resets and the passing of time *)

NextUsage ==
    \/ Tick
    \/ ResetUsageStats
    \/ GetResponse
    \/ FilteredSearch
    \/ FallbackSearch
    \/ Discover
    \/ LlmCall
    \/ Finish

SpecUsage == InitPersisted /\ [][NextUsage]_vars

-----------------------------------------------------------------------------
(* The data pipeline: data_pipeline.py and data/clinical_trials.py *)

\* studies the registry holds for the start date
MaxRegistry == 3
\* length at which the list of fetched studies stops growing in the model
MaxFetched == 4

\* the registry's answer: its studies in the order it lists them
Registries == {[i \in 1..n |-> i] : n \in 0..MaxRegistry}

\* max_results of fetch_trials_in_batches: 0 stands for None (both are falsy)
FetchLimits == 0..MaxRegistry

\* batch_size of fetch_trials_in_batches
FetchBatchSizes == {1, 2}

\* fetch_clinical_trials(start_date, max_results): the pages are read from the
\* first one on, and the list is cut at max_results
FetchClinicalTrials(registry, max_results) ==
    IF max_results # 0 /\ Len(registry) >= max_results
    THEN Take(registry, max_results)
    ELSE registry

\* batch_params["max_results"] of one pass of the loop
BatchLimit(f) ==
    IF f.max_results # 0 /\ Len(f.all_trials) + f.batch_size > f.max_results
    THEN f.max_results - Len(f.all_trials)
    ELSE f.batch_size

\* fetch_trials_in_batches is called
FetchTrialsInBatches ==
    /\ fetch.pc = "idle"
    /\ \E registry \in Registries, max_results \in FetchLimits, batch_size \in FetchBatchSizes :
           fetch' = [pc |-> "loop", registry |-> registry, max_results |-> max_results,
                     batch_size |-> batch_size, all_trials |-> << >>, offset |-> 0,
                     pass |-> 0]
    /\ UNCHANGED << store, clock, ingested, usage_stats, pc, last_fail, last_op >>
    /\ UNCHANGED callvars

\* one pass of the while loop of fetch_trials_in_batches; offset is advanced
\* and never given to fetch_clinical_trials. The passes are not bounded in
\* number: the list and offset stop growing at MaxFetched, and pass keeps the
\* parity of the passes made
FetchBatch ==
    /\ fetch.pc = "loop"
    /\ \E raised \in BOOLEAN :
        LET studies == FetchClinicalTrials(fetch.registry, BatchLimit(fetch))
            extended == fetch.all_trials \o studies
        IN  fetch' =
                IF raised \/ studies = << >>
                THEN [fetch EXCEPT !.pc = "returned"]
                ELSE IF fetch.max_results # 0 /\ Len(extended) >= fetch.max_results
                THEN [fetch EXCEPT !.pc = "returned",
                                   !.all_trials = Take(extended, fetch.max_results)]
                ELSE IF Len(studies) < fetch.batch_size
                THEN [fetch EXCEPT !.pc = "returned", !.all_trials = extended]
                ELSE [fetch EXCEPT !.all_trials = Take(extended, MaxFetched),
                                   !.offset = IF @ + fetch.batch_size > MaxFetched
                                              THEN MaxFetched ELSE @ + fetch.batch_size,
                                   !.pass = 1 - @]
    /\ UNCHANGED << store, clock, ingested, usage_stats, pc, last_fail, last_op >>
    /\ UNCHANGED callvars

\* the caller has taken the list fetch_trials_in_batches returned
FetchTaken ==
    /\ fetch.pc = "returned"
    /\ fetch' = NoFetch
    /\ UNCHANGED << store, clock, ingested, usage_stats, pc, last_fail, last_op >>
    /\ UNCHANGED callvars

NextFetch == FetchTrialsInBatches \/ FetchBatch \/ FetchTaken

\* the loop is not suspended for ever: a pass that can be made is made
SpecFetch == Init /\ [][NextFetch]_vars /\ WF_vars(FetchBatch)

\* studies given to process_and_ingest_trials; in the last one
\* resultsSection.participantFlowModule.periods is a list, as the registry gives it
Studies ==
    { [nctId |-> "NCT00000001", size |-> 1],
      [nctId |-> "NCT00000002", size |-> 1],
      [nctId |-> "NCT00000002", size |-> 1, periods |-> "list"] }

StudyLists ==
    {<< >>} \cup {<< a >> : a \in Studies}
        \cup {l \in {<< a, b >> : a \in Studies, b \in Studies} : l[1].nctId # l[2].nctId}

\* batch_size of process_and_ingest_trials: the default
PipelineBatchSize == 500

\* preprocess_trial_data raises on a study: {...}.get('periods', {}).get('title')
\* when periods is a list
PreprocessRaises(studies) ==
    \E i \in DOMAIN studies : "periods" \in DOMAIN studies[i] /\ studies[i].periods = "list"

\* preprocess_trial_data: every key of the trial is set, to None where the
\* study has no value and to [] for the lists
PreprocessTrialData(studies) ==
    [i \in DOMAIN studies |->
        [nct_id |-> MetaGet(studies[i], "nctId", NoValue),
         size |-> studies[i].size,
         title |-> MetaGet(studies[i], "briefTitle", NoValue),
         organization_full_name |-> NoValue,
         status |-> MetaGet(studies[i], "overallStatus", NoValue),
         conditions |-> ListOf(MetaGet(studies[i], "conditions", << >>)),
         study_phase |-> ListOf(MetaGet(studies[i], "phases", << >>))]]

\* the for loop of process_and_ingest_trials from index i (1-based) on: st is
\* the collection, total is total_processed; stamps[k] and fails[k] are the
\* second of add_documents and the failing write of batch k
RECURSIVE IngestLoop(_, _, _, _, _, _, _)
IngestLoop(st, trials, batch_size, i, stamps, fails, total) ==
    IF i > Len(trials)
    THEN [store |-> st, total_processed |-> total]
    ELSE LET last == IF i + batch_size - 1 > Len(trials) THEN Len(trials)
                     ELSE i + batch_size - 1
             batch == SubSeq(trials, i, last)
             k == ((i - 1) \div batch_size) + 1
             processed_batch == PreprocessTrialData(batch)
             processed_trials == TextProcessTrialsBatch(processed_batch)
             documents == ProcessTrialsBatch(processed_trials)
         IN  IF PreprocessRaises(batch) \/ ProcessTrialsBatchRaises(processed_trials)
             THEN IngestLoop(st, trials, batch_size, i + batch_size, stamps, fails, total)
             ELSE IngestLoop(AddDocuments(st, documents, stamps[k], fails[k]), trials,
                             batch_size, i + batch_size, stamps, fails,
                             total + Len(processed_batch))

\* ClinicalTrialsDataPipeline.process_and_ingest_trials(trials, batch_size)
ProcessAndIngestTrials ==
    /\ pc = "idle"
    /\ ingested < MaxAdds
    /\ \E trials \in StudyLists, batch_size \in {1, PipelineBatchSize}, passes \in BOOLEAN :
        LET batches == (Len(trials) + batch_size - 1) \div batch_size
            last == IF passes /\ batches > 0 THEN clock + batches - 1 ELSE clock
        IN  /\ last <= MaxClock
            /\ \E fails \in [1..batches -> {0, 1}] :
                LET stamps == [k \in 1..batches |-> IF passes THEN clock + k - 1 ELSE clock]
                    out == IngestLoop(store, trials, batch_size, 1, stamps, fails, 0)
                IN  /\ store' = out.store
                    /\ clock' = last
                    /\ last_op' = [op |-> "process_and_ingest_trials", trials |-> trials,
                                   batch_size |-> batch_size, stamps |-> stamps,
                                   fails |-> fails, before |-> store,
                                   returned |-> out.total_processed]
    /\ ingested' = ingested + 1
    /\ UNCHANGED << usage_stats, pc, last_fail, fetch >>
    /\ UNCHANGED callvars

NextPipeline == ProcessAndIngestTrials \/ ClearDatabaseKept

SpecPipeline == Init /\ [][NextPipeline]_vars

-----------------------------------------------------------------------------
(* Properties *)

Hallucination == verification.got /\ Contains(verification.text, "HALLUCINATION_DETECTED")

Verified == verification.got /\ ~Contains(verification.text, "HALLUCINATION_DETECTED")

NotFoundShown ==
    result.got /\ result.text \in ({NotFoundGeneral} \cup {NotFoundNct(id) : id \in NctIds})

StoredFor(id) == {i \in DOMAIN store : MetaGet(store[i].metadata, "nct_id", NoValue) = id}

FailureKinds == {"connection", "timeout", "malformed"}

\* C1: within one get_response call generate_response is invoked at most 3 times
C1_VerificationBound == llm_calls <= 3

\* a call that ended after the verification reported a hallucination
C1_Witness == pc = "done" /\ Hallucination /\ llm_calls = 2

\* C2: when the retrieval is non-empty, the first generation succeeds and the
\* verification reply contains HALLUCINATION_DETECTED, the model is invoked once
\* more and the caller gets the regenerated answer, not an error message
C2_RegeneratesOnce ==
    (pc = "done" /\ relevant_docs # << >> /\ response.got /\ Hallucination)
        => (llm_calls = 3 /\ result.got /\ result.text # Apology)

\* C3: when the verification reply does not contain HALLUCINATION_DETECTED the
\* caller gets exactly the first generated answer, after exactly 2 invocations
C3_VerifiedPassThrough ==
    (pc = "done" /\ relevant_docs # << >> /\ response.got /\ Verified)
        => (result = response /\ llm_calls = 2)

C3_Witness ==
    /\ pc = "done"
    /\ response = Reply(<< "RECRUITING" >>)
    /\ verification = Reply(<< "VERIFIED" >>)
    /\ result = Reply(<< "RECRUITING" >>)

\* C4: get_response never propagates an exception: whatever fails, the caller
\* gets a string
C4_NeverPropagates == pc = "done" => (result.got /\ result.text # Raised)

\* a call in which a search raised and the model then returned a body without
\* the response field
C4_Witness ==
    /\ pc = "done"
    /\ search_failed
    /\ llm_error.exc = "ValueError"
    /\ result = Reply(Apology)

\* C5: the "couldn't find" answer is returned only when the retrieval matched no
\* stored document; a failure of the store during the retrieval gives the apology
C5_NothingFoundIsGenuine ==
    (pc = "done" /\ NotFoundShown)
        => /\ ~search_failed
           /\ mode = "nct" => StoredFor(nct_id) = {}
           /\ mode = "general" => store = << >>

\* C6: connection failure, timeout and malformed response surface to the caller
\* of get_response as strings that differ for any two of the three kinds
C6_DistinctMessages ==
    (/\ pc = "done"
     /\ llm_error.kind \in FailureKinds
     /\ last_fail.kind \in FailureKinds
     /\ llm_error.kind # last_fail.kind)
        => result.text # last_fail.shown

\* C6 as the code has it: the three kinds raise different messages inside
\* generate_response, and get_response answers each of them with the same apology
C6_DistinctRaisedSameShown ==
    (/\ pc = "done"
     /\ llm_error.kind \in FailureKinds
     /\ last_fail.kind \in FailureKinds
     /\ llm_error.kind # last_fail.kind)
        => /\ llm_error.msg # last_fail.msg
           /\ result = Reply(Apology)
           /\ last_fail.shown = Apology

\* a call that ended in a timeout after a call that found the service down
C6_Witness ==
    /\ pc = "done"
    /\ llm_error.kind = "timeout"
    /\ last_fail.kind = "connection"

\* C7: the documents retrieved for a query with a well-formed identifier all
\* carry that identifier, on the filtered path and on the fallback path
C7_IdentifierOnly ==
    mode = "nct" =>
        \A i \in DOMAIN relevant_docs :
            MetaGet(relevant_docs[i].metadata, "nct_id", NoValue) = nct_id

\* documents found through the unfiltered fallback while the store also holds
\* another trial
C7_Witness ==
    /\ mode = "nct"
    /\ pc = "generate"
    /\ search_failed
    /\ relevant_docs # << >>
    /\ \E i \in DOMAIN store : store[i].metadata.nct_id # nct_id

\* C8: when the discovery search returns a hit of trial X, the context holds
\* every stored chunk of X, whatever the number of chunks of X
C8_RetrievalComplete ==
    (mode = "general" /\ pc = "generate" /\ ~search_failed) =>
        \A id \in discovered : \A i \in StoredFor(id) :
            \E j \in DOMAIN relevant_docs :
                /\ relevant_docs[j].page_content = store[i].page_content
                /\ relevant_docs[j].metadata = store[i].metadata

\* position of a chunk in the split of its trial, as process_trial numbered it
ChunkPosition(d) == d.page_content.part

\* C9: an identifier query returns the chunks of the trial in ascending chunk
\* position; over a store holding only the 3 chunks of one trial, in order 0,1,2
C9_AscendingChunkOrder ==
    (mode = "nct" /\ pc = "generate") =>
        /\ \A i, j \in DOMAIN relevant_docs :
               i < j => ChunkPosition(relevant_docs[i]) <= ChunkPosition(relevant_docs[j])
        /\ (Len(store) = 3 /\ Len(relevant_docs) = 3) =>
               [i \in 1..3 |-> ChunkPosition(relevant_docs[i])] = << 0, 1, 2 >>

\* C10: every Document of process_trial carries chunk_index and total_chunks
\* with 0 <= chunk_index < total_chunks, and every record yields at least one
C10_ChunkIndexMetadata ==
    /\ \A rec \in TrialRecords : Len(ProcessTrial(rec)) >= 1
    /\ \A i \in DOMAIN store :
           /\ "chunk_index" \in DOMAIN store[i].metadata
           /\ "total_chunks" \in DOMAIN store[i].metadata
           /\ 0 <= store[i].metadata["chunk_index"]
           /\ store[i].metadata["chunk_index"] < store[i].metadata["total_chunks"]

-----------------------------------------------------------------------------
(* Properties of ingestion and of the collection *)

\* the last operation was an add_trials call that reached add_documents
LastAdd == last_op.op = "add_trials" /\ ~last_op.raised

\* the documents that call built, and the entries it prepared for the collection
LastDocuments == ProcessTrialsBatch(TextProcessTrialsBatch(last_op.batch))

LastEntries == Entries(LastDocuments, last_op.stamp)

NonEmptyString(v) == v \notin {NoValue, ""}

ChunkCount(st, id) == Cardinality({i \in DOMAIN st : st[i].metadata.nct_id = id})

\* C11: every Document built by process_trial and every stored document has a
\* metadata nct_id that is a non-empty string, also for records whose nct_id is
\* absent, null or empty
C11_NctIdNonEmpty ==
    /\ \A i \in DOMAIN store :
           /\ "nct_id" \in DOMAIN store[i].metadata
           /\ NonEmptyString(store[i].metadata.nct_id)
    /\ LastAdd =>
           \A i \in DOMAIN LastDocuments :
               /\ "nct_id" \in DOMAIN LastDocuments[i].metadata
               /\ NonEmptyString(LastDocuments[i].metadata.nct_id)

\* C12: add_trials never raises on a record with missing or null fields, and
\* the other records of the batch are processed and stored
C12_MalformedTolerated ==
    last_op.op = "add_trials" =>
        /\ ~last_op.raised
        /\ (last_op.failAt = 0 /\ last_op.before = << >>) =>
               \A r \in DOMAIN last_op.batch :
                   ~ProcessTrialRaises(TextProcessTrial(last_op.batch[r])) =>
                       \A c \in Range(SplitText(TextProcessTrial(last_op.batch[r]))) :
                           \E j \in DOMAIN store : store[j].page_content = c

\* C13: the ids assigned by an add_documents call differ from every id the
\* collection already holds, and the documents held keep their ids
C13_IdsUniqueAndStable ==
    LastAdd =>
        LET entries == LastEntries
            before == last_op.before
        IN  /\ {entries[i].id : i \in DOMAIN entries} \cap StoredIds(before) = {}
            /\ \A i \in DOMAIN before : store[i] = before[i]

\* C14: every document written by an add_documents call whose writes succeeded
\* is returned by get_document_by_id under the id the call assigned to it
C14_RoundTrip ==
    (LastAdd /\ last_op.failAt = 0) =>
        LET entries == LastEntries
        IN  \A i \in DOMAIN entries :
                LET got == GetDocumentById(store, entries[i].id, FALSE)
                IN  got.found /\ got.page_content = entries[i].page_content

\* C15: when the write of one batch fails, the batches before it stay stored
\* and the batches after it are still written
C15_BatchesIndependent ==
    (LastAdd /\ last_op.before = << >>) =>
        LET entries == LastEntries
            held == StoredIds(store)
        IN  /\ last_op.writes = NumBatches(Len(entries))
            /\ \A b \in 1..NumBatches(Len(entries)) :
                   b # last_op.failAt =>
                       \A e \in Range(BatchOf(entries, b)) : e.id \in held

\* C16: once clear_database has returned the collection counts 0 documents and
\* neither get_document_by_id nor similarity_search returns a document
C16_ClearRemovesAll ==
    last_op.op = "clear_database" =>
        /\ GetCollectionStats(store, FALSE).total_documents = 0
        /\ \A i \in DOMAIN last_op.before :
               ~GetDocumentById(store, last_op.before[i].id, FALSE).found
        /\ \A rank \in Rankings(store) : SimilaritySearch(rank, NctK, NoFilter, FALSE) = << >>

\* the collection after add_trials(batch) at second stamp on an empty collection
IngestedAt(batch, stamp) ==
    AddDocuments(<< >>, ProcessTrialsBatch(TextProcessTrialsBatch(batch)), stamp, 0)

\* C17: ingesting again the record set the collection was built from (with or
\* without a clear_database in between) leaves the number of chunks per trial
\* as it was
C17_ReingestionIdempotent ==
    (/\ LastAdd
     /\ last_op.failAt = 0
     /\ last_op.before # << >>
     /\ \E stamp \in 0..MaxClock : last_op.before = IngestedAt(last_op.batch, stamp))
        => \A id \in NctIds : ChunkCount(store, id) = ChunkCount(last_op.before, id)

\* C18: add_documents([]) issues no write and leaves the collection and its
\* document count as they were
C18_EmptyAddIsNoOp ==
    (LastAdd /\ LastDocuments = << >>) =>
        /\ last_op.writes = 0
        /\ store = last_op.before
        /\ GetCollectionStats(store, FALSE) = GetCollectionStats(last_op.before, FALSE)

\* an empty ingestion set handed over while the collection holds documents
C18_Witness ==
    /\ LastAdd
    /\ last_op.batch = << >>
    /\ store # << >>

\* a step of a read operation: similarity_search, get_document_by_id,
\* get_collection_stats, or any step of get_response
ReadStep ==
    \/ SimilaritySearchCall
    \/ GetDocumentByIdCall
    \/ GetCollectionStatsCall
    \/ GetResponse
    \/ FilteredSearch
    \/ FallbackSearch
    \/ Discover
    \/ LlmCall
    \/ Finish

\* C19: no read operation changes the ids, contents or metadata the collection
\* holds, whether the read succeeds or fails
C19_ReadsKeepCollection == [][ReadStep => store' = store]_vars

\* get_response has answered from a non-empty retrieval, after a
\* similarity_search that returned documents
C19_Witness ==
    /\ pc = "done"
    /\ relevant_docs # << >>
    /\ last_op.op = "similarity_search"
    /\ last_op.out # << >>

\* the order in which _select_prompt_template is said to test the categories
CategoryOrder == << "outcome", "discovery", "summary", "general" >>

CategoryKeywords(c) ==
    CASE c = "outcome"   -> OutcomeKeywords
      [] c = "discovery" -> DiscoveryKeywords
      [] c = "summary"   -> SummaryKeywords
      [] c = "general"   -> {}

\* categories whose keywords occur in the lower-cased query; general always applies
MatchedCategories(q) ==
    {c \in Range(CategoryOrder) :
        c = "general" \/ QueryKeywords(q) \cap CategoryKeywords(c) # {}}

EarliestCategory(q) ==
    CategoryOrder[CHOOSE i \in DOMAIN CategoryOrder :
        /\ CategoryOrder[i] \in MatchedCategories(q)
        /\ \A j \in 1..(i - 1) : CategoryOrder[j] \notin MatchedCategories(q)]

\* C20: the template selected for a query is that of the earliest category, in
\* the order outcome, discovery, summary, general, whose keywords occur in the
\* lower-cased query (the detailed summary when a detail keyword also occurs)
C20_EarliestCategoryWins ==
    prompt # NoPrompt =>
        prompt.template =
            IF EarliestCategory(query) = "summary" /\ QueryKeywords(query) \cap DetailKeywords # {}
            THEN "detailed_summary"
            ELSE EarliestCategory(query)

\* a query with a summary, a discovery and an outcome keyword, in that order,
\* got the outcome template
C20_Witness ==
    /\ pc = "generate"
    /\ query = << "summary", "find", "Results" >>
    /\ prompt.template = "outcome"

\* the categories of the classifier's contract
AllCategories ==
    {"status", "eligibility", "intervention", "outcome", "discovery", "summary",
     "detailed_summary", "general"}

\* C21: each of the eight categories is the one selected for some query
C21_EveryCategorySelected ==
    \A c \in AllCategories :
        \E q \in ClassifyQueries : SelectPromptTemplate(q, ContextOf(relevant_docs)).template = c

\* the step in which get_response returns an answer the model generated: the
\* verification or the regeneration call ends without an exception
AnswerStep ==
    /\ pc \in {"verify", "regenerate"}
    /\ pc' = "done"
    /\ llm_error'.exc = NoValue

\* C22: a get_response call that returns a generated answer adds 1 to
\* total_queries and to queries_by_model[model_name], and adds to total_tokens
\* the estimate of the prompt, of the query and of the answer returned
C22_AnswerCounted ==
    [][AnswerStep =>
        /\ usage_stats'.total_queries = usage_stats.total_queries + 1
        /\ usage_stats'.queries_by_model[ModelName] = usage_stats.queries_by_model[ModelName] + 1
        /\ usage_stats'.total_tokens =
               usage_stats.total_tokens + CountTokens(PromptWords(prompt))
                   + CountTokens(Len(query)) + CountTokens(Len(result'.text))]_vars

\* a verified answer has been returned and counted
C22_Witness ==
    /\ pc = "done"
    /\ Verified
    /\ result = response
    /\ usage_stats.total_queries = 1
    /\ usage_stats.total_tokens > 0

\* C23: on the general path the "couldn't find" return (documents []) happens
\* only when the discovery search returned no document
C23_EmptyOnlyWithoutHits ==
    (mode = "general" /\ pc = "done" /\ discovered # {}) => ~NotFoundShown

\* the field is absent from the record, or present and null
Unset(rec, f) == f \notin DOMAIN rec \/ rec[f] = NoValue

\* C24: the text rendered by process_trial shows "N/A" for every field of the
\* record that is absent or null; the record with title "Aspirin Study" and
\* status "RECRUITING" gives a document with both and "N/A" for an unset field
C24_UnsetFieldsShowNA ==
    (LastAdd /\ last_op.before = << >> /\ last_op.failAt = 0 /\ ~last_op.raised)
        => \A r \in DOMAIN last_op.batch :
               LET rec == TextProcessTrial(last_op.batch[r])
               IN  /\ \A f \in RenderedFields :
                       Unset(rec, f) =>
                           \E j \in DOMAIN store :
                               /\ store[j].page_content.part = 0
                               /\ store[j].page_content.header[f] = "N/A"
                   /\ ("title" \in DOMAIN rec /\ rec.title = "Aspirin Study")
                       => \E j \in DOMAIN store :
                              /\ store[j].page_content.part = 0
                              /\ store[j].page_content.header.title = "Aspirin Study"
                              /\ store[j].page_content.header.status = "RECRUITING"
                              /\ store[j].page_content.header.organization_full_name = "N/A"

\* no retrieved chunk carries a numeric chunk_index
NoChunkIndex(docs) == \A i \in DOMAIN docs : "chunk_index" \notin DOMAIN docs[i].metadata

\* C25: when chunk_index is missing on the retrieved chunks,
\* _get_documents_for_query returns them in the order they were retrieved
C25_RetrievalOrderKept ==
    (mode = "general" /\ pc = "generate" /\ NoChunkIndex(all_relevant_docs))
        => relevant_docs = all_relevant_docs

-----------------------------------------------------------------------------
(* Properties of the data pipeline *)

\* the documents of the study are in the collection
Written(study) ==
    \E j \in DOMAIN store : MetaGet(store[j].metadata, "nct_id", NoValue) = study.nctId

\* C26: the count process_and_ingest_trials returns is the number of the trials
\* whose documents were written to the collection
C26_CountsWrittenTrials ==
    (last_op.op = "process_and_ingest_trials" /\ last_op.before = << >>)
        => last_op.returned =
               Cardinality({i \in DOMAIN last_op.trials : Written(last_op.trials[i])})

\* C27: every call of fetch_trials_in_batches returns
C27_FetchTerminates == (fetch.pc = "loop") ~> (fetch.pc = "returned")

\* C28: the list fetch_trials_in_batches returns holds each study of the
\* registry at most once, and at most max_results studies when it is set
C28_FetchedOnce ==
    fetch.pc = "returned"
        => /\ \A i, j \in DOMAIN fetch.all_trials :
                  fetch.all_trials[i] = fetch.all_trials[j] => i = j
           /\ fetch.max_results # 0 => Len(fetch.all_trials) <= fetch.max_results

-----------------------------------------------------------------------------
(* Properties of the usage counters *)

RECURSIVE SumValues(_)
SumValues(f) ==
    IF DOMAIN f = {} THEN 0
    ELSE LET k == CHOOSE x \in DOMAIN f : TRUE
         IN  f[k] + SumValues([x \in DOMAIN f \ {k} |-> f[x]])

UsageConsistent ==
    /\ usage_stats.total_queries = SumValues(usage_stats.queries_by_model)
    /\ usage_stats.total_queries >= 0
    /\ \A name \in DOMAIN usage_stats.queries_by_model :
           usage_stats.queries_by_model[name] >= 0

\* C29: total_queries is always the sum of the values of queries_by_model, both
\* are non-negative, and right after reset_usage_stats both are 0
C29_CountersAgree ==
    /\ []UsageConsistent
    /\ [][ResetUsageStats =>
            /\ usage_stats'.total_queries = 0
            /\ SumValues(usage_stats'.queries_by_model) = 0]_vars

\* an answer was counted after a reset made at a later second than the start
C29_Witness ==
    /\ usage_stats.last_reset > 0
    /\ usage_stats.total_queries = 1
    /\ usage_stats.queries_by_model[ModelName] = 1

\* C30: a get_response call changes usage_stats only in the step that returns
\* a generated answer, and the "couldn't find" return is made without any
\* call of the model
C30_OnlyAnswersCounted ==
    /\ [][((pc # "idle" \/ pc' # "idle") /\ ~AnswerStep) => usage_stats' = usage_stats]_vars
    /\ []((pc = "done" /\ NotFoundShown) => llm_calls = 0)

\* a call ended with the apology after the model was called, nothing counted
C30_Witness ==
    /\ pc = "done"
    /\ result.got
    /\ result.text = Apology
    /\ llm_calls >= 1
    /\ usage_stats.total_queries = 0

=============================================================================
